---- MODULE Spec2Model ----
(* A model of MovieWar.py: the round engine (MovieWar.play), the title      *)
(* resolver (find_movie and its helpers), scoring and the entry point.      *)
(*                                                                          *)
(* Python strings are sequences of one-character strings, so that strip(),  *)
(* lower(), slicing, substring tests and int() are computed, not assumed.   *)
(* A year stored in a movie is kept as the text int() is applied to: the    *)
(* catalog file holds JSON integers (written here as their decimal text),   *)
(* OMDB years are the first four characters of the 'Year' string.           *)
EXTENDS Integers, Sequences, FiniteSets, TLC

VARIABLES
    pc,             \* where the process is: a prompt it blocks on, or an end
    challenge,      \* options.challenge
    omdb_search,    \* options.omdb_search
    favor,          \* options.favor: "none", "older" or "newer"
    favor_tests,    \* options.favor_tests
    roundlimit,     \* MovieWar.roundlimit
    round,          \* MovieWar.round
    players,        \* MovieWar.players: the turn order, a sequence of players
    score,          \* Player.score of each player
    last_answer,    \* Player.last_answer of each player
    movies,         \* MovieWar.movies: the catalog
    new_movies,     \* MovieWar.new_movies
    movie,          \* play(): the movie of the round being played
    idx,            \* get_player_answers(): index of the player being asked
    found,          \* pick_player_movie(): what find_movie did in the call
                    \* that ended the prompt (a match, or an exception)
    typed,          \* input(): the last line a prompt accepted (a line it
                    \* rejects is asked for again and changes nothing)
    file_appended,  \* what append_to_movies_file wrote to the movies file
    final_scores,   \* print_player_scores(): the lines of 'Final scores:' on
                    \* display at the 'Play again?' prompt
    rounds_scored,  \* history: the rounds scored since the match began
    rotations       \* history: the calls of rotate_left(self.players) since
                    \* the match began

vars == <<pc, challenge, omdb_search, favor, favor_tests,
          roundlimit, round, players, score, last_answer, movies, new_movies,
          movie, idx, found, typed, file_appended,
          final_scores, rounds_scored, rotations>>

----------------------------------------------------------------------------
(* Bounds of the model.                                                     *)

MaxPlayers == 2
MaxRounds == 2
MaxFavorTests == 2
MaxResults == 2

----------------------------------------------------------------------------
(* Strings.                                                                 *)

Digits == <<"0", "1", "2", "3", "4", "5", "6", "7", "8", "9">>

IsDigit(c) == \E i \in 1..10 : Digits[i] = c

DigitValue(c) == (CHOOSE i \in 1..10 : Digits[i] = c) - 1

IsSpace(c) == c = " "

\* str.lower() on one character of the alphabet the model uses
LowerChar(c) ==
    CASE c = "U" -> "u"
      [] c = "D" -> "d"
      [] c = "Y" -> "y"
      [] c = "N" -> "n"
      [] OTHER -> c

Lower(s) == [i \in 1..Len(s) |-> LowerChar(s[i])]

RECURSIVE LStrip(_)
LStrip(s) == IF s # <<>> /\ IsSpace(s[1]) THEN LStrip(Tail(s)) ELSE s

RECURSIVE RStrip(_)
RStrip(s) ==
    IF s # <<>> /\ IsSpace(s[Len(s)]) THEN RStrip(SubSeq(s, 1, Len(s) - 1)) ELSE s

Strip(s) == RStrip(LStrip(s))

\* s[:n]
Prefix(s, n) == SubSeq(s, 1, IF Len(s) < n THEN Len(s) ELSE n)

\* sub in s
Contains(s, sub) ==
    \E i \in 0..(Len(s) - Len(sub)) : SubSeq(s, i + 1, i + Len(sub)) = sub

\* the digits of an int() literal after its sign: digits, with single
\* underscores allowed between them
IsDigitBody(b) ==
    /\ b # <<>>
    /\ IsDigit(b[1])
    /\ IsDigit(b[Len(b)])
    /\ \A i \in 1..Len(b) : IsDigit(b[i]) \/ b[i] = "_"
    /\ \A i \in 1..(Len(b) - 1) : ~(b[i] = "_" /\ b[i + 1] = "_")

Unsigned(t) == IF t # <<>> /\ t[1] \in {"+", "-"} THEN Tail(t) ELSE t

\* int(s) does not raise ValueError
ParsesAsInt(s) == IsDigitBody(Unsigned(Strip(s)))

RECURSIVE DigitsValue(_, _)
DigitsValue(b, acc) ==
    IF b = <<>> THEN acc
    ELSE IF b[1] = "_" THEN DigitsValue(Tail(b), acc)
    ELSE DigitsValue(Tail(b), 10 * acc + DigitValue(b[1]))

\* int(s), where it parses
ToInt(s) ==
    LET t == Strip(s)
        v == DigitsValue(Unsigned(t), 0)
    IN  IF t # <<>> /\ t[1] = "-" THEN 0 - v ELSE v

is_valid_year(string) ==
    LET year == Strip(string)
    IN  IF Len(year) # 4 THEN FALSE ELSE ParsesAsInt(year)

\* the loop of rotate_left assigning one way only, where it swaps
RECURSIVE rotate_copies(_, _)
rotate_copies(iterable, i) ==
    IF i > Len(iterable) - 1 THEN iterable
    ELSE rotate_copies([iterable EXCEPT ![i] = iterable[i + 1]], i + 1)

\* the loop of rotate_left: swap places i and i + 1, for i from the first
\* place to the one before the last
RECURSIVE rotate_swaps(_, _)
rotate_swaps(iterable, i) ==
    IF i > Len(iterable) - 1 THEN iterable
    ELSE rotate_swaps([iterable EXCEPT ![i] = iterable[i + 1],
                                       ![i + 1] = iterable[i]], i + 1)

\* rotate_left with its loop begun one place late
rotate_left_late(iterable) == rotate_swaps(iterable, 2)

rotate_left(iterable) == rotate_swaps(iterable, 1)

Abs(n) == IF n < 0 THEN 0 - n ELSE n

----------------------------------------------------------------------------
(* Text the model uses.                                                     *)

T_Up == <<"U", "p">>
T_up == <<"u", "p">>
T_Dune == <<"D", "u", "n", "e">>
T_dune == <<"d", "u", "n", "e">>
T_du == <<"d", "u">>

Y_1984 == <<"1", "9", "8", "4">>
Y_2021 == <<"2", "0", "2", "1">>
Y_2009 == <<"2", "0", "0", "9">>
Y_2000 == <<"2", "0", "0", "0">>
Y_1984_86 == <<"1", "9", "8", "4", "-", "8", "6">>
Y_198 == <<"1", "9", "8">>

\* None, where a movie is expected. ytype is the Python type of the elements
\* of 'years': "int" as the catalog file is written by hand, "str" as
\* find_omdb_movie builds them (and as append_to_movies_file then saves them).
NoMovie == [name |-> <<>>, years |-> <<>>, ytype |-> "none"]

Up2009 == [name |-> T_Up, years |-> <<Y_2009>>, ytype |-> "int"]
Dune8421 == [name |-> T_Dune, years |-> <<Y_1984, Y_2021>>, ytype |-> "str"]

----------------------------------------------------------------------------
(* Finding movies.                                                          *)

\* find_local_movie comparing the names as they are written
RECURSIVE find_local_loop_cased(_, _, _)
find_local_loop_cased(rest, name, acc) ==
    IF rest = <<>> THEN acc
    ELSE LET m == Head(rest)
             suggested == Contains(Lower(m.name), Lower(name))
             exact == name = m.name
         IN  find_local_loop_cased(Tail(rest), name,
                 [match |-> IF suggested /\ exact THEN m ELSE acc.match,
                  suggestions |-> IF suggested
                                  THEN acc.suggestions \cup {m.name}
                                  ELSE acc.suggestions])

find_local_movie_cased(catalog, name) ==
    find_local_loop_cased(catalog, name,
                          [match |-> NoMovie, suggestions |-> {}])

\* the loop of find_local_movie over the rest of the catalog
RECURSIVE find_local_loop(_, _, _)
find_local_loop(rest, name, acc) ==
    IF rest = <<>> THEN acc
    ELSE LET m == Head(rest)
             suggested == Contains(Lower(m.name), Lower(name))
             exact == Lower(name) = Lower(m.name)
         IN  find_local_loop(Tail(rest), name,
                 [match |-> IF suggested /\ exact THEN m ELSE acc.match,
                  suggestions |-> IF suggested
                                  THEN acc.suggestions \cup {m.name}
                                  ELSE acc.suggestions])

find_local_movie(catalog, name) ==
    find_local_loop(catalog, name, [match |-> NoMovie, suggestions |-> {}])

\* omdb_record giving up what was gathered when a record is not usable
omdb_record_fatal(name, rec, acc) ==
    IF ~("Type" \in DOMAIN rec /\ "Title" \in DOMAIN rec /\ "Year" \in DOMAIN rec)
    THEN [match |-> NoMovie, suggestions |-> {}]
    ELSE IF rec.Type # "movie" THEN [match |-> NoMovie, suggestions |-> {}]
    ELSE LET omdb_name == rec.Title
             omdb_year == Prefix(rec.Year, 4)
         IN  IF ~is_valid_year(omdb_year)
             THEN [match |-> NoMovie, suggestions |-> {}]
             ELSE [match |->
                      IF Lower(name) = Lower(omdb_name)
                      THEN IF acc.match # NoMovie
                           THEN [acc.match EXCEPT
                                    !.years = Append(@, omdb_year)]
                           ELSE [name |-> omdb_name, years |-> <<omdb_year>>,
                                 ytype |-> "str"]
                      ELSE acc.match,
                   suggestions |-> acc.suggestions \cup {omdb_name}]

\* one record of jsondata['Search'], handled by the body of the loop of
\* find_omdb_movie
omdb_record(name, rec, acc) ==
    IF ~("Type" \in DOMAIN rec /\ "Title" \in DOMAIN rec /\ "Year" \in DOMAIN rec)
    THEN acc
    ELSE IF rec.Type # "movie" THEN acc
    ELSE LET omdb_name == rec.Title
             omdb_year == Prefix(rec.Year, 4)
         IN  IF ~is_valid_year(omdb_year) THEN acc
             ELSE [match |->
                      IF Lower(name) = Lower(omdb_name)
                      THEN IF acc.match # NoMovie
                           THEN [acc.match EXCEPT
                                    !.years = Append(@, omdb_year)]
                           ELSE [name |-> omdb_name, years |-> <<omdb_year>>,
                                 ytype |-> "str"]
                      ELSE acc.match,
                   suggestions |-> acc.suggestions \cup {omdb_name}]

RECURSIVE omdb_loop(_, _, _)
omdb_loop(name, rest, acc) ==
    IF rest = <<>> THEN acc
    ELSE omdb_loop(name, Tail(rest), omdb_record(name, Head(rest), acc))

\* find_omdb_movie(name), given what omdb_search(name) does: it raises
\* (kind "raise"), answers without 'Search' (kind "error") or with a list.
\* returned = "None": the except branch ends without a return statement.
find_omdb_movie(name, response) ==
    IF response.kind = "raise"
    THEN [returned |-> "None", match |-> NoMovie, suggestions |-> {}]
    ELSE IF response.kind = "error"
    THEN [returned |-> "tuple", match |-> NoMovie, suggestions |-> {}]
    ELSE LET r == omdb_loop(name, response.Search,
                            [match |-> NoMovie, suggestions |-> {}])
         IN  [returned |-> "tuple", match |-> r.match,
              suggestions |-> r.suggestions]

\* find_movie(movies, name, omdb_search). raised: the call ended with an
\* exception (unpacking the None that find_omdb_movie returned).
find_movie(catalog, name, search, response) ==
    LET local == find_local_movie(catalog, name)
        remote == find_omdb_movie(name, response)
        base == [name |-> name, raised |-> FALSE, called |-> FALSE,
                 outcome |-> "none", match |-> local.match,
                 suggestions |-> local.suggestions, omdb |-> FALSE]
    IN  IF local.match # NoMovie THEN base
        ELSE IF ~search THEN base
        ELSE IF remote.returned = "None"
             THEN [base EXCEPT !.raised = TRUE, !.called = TRUE,
                               !.outcome = response.kind]
        ELSE [base EXCEPT
                 !.called = TRUE,
                 !.outcome = response.kind,
                 !.match = remote.match,
                 !.suggestions = local.suggestions \cup remote.suggestions,
                 !.omdb = remote.match # NoMovie]

\* no find_movie call has ended the prompt
NoFind == [name |-> <<>>, raised |-> FALSE, called |-> FALSE,
           outcome |-> "none", match |-> NoMovie, suggestions |-> {},
           omdb |-> FALSE]

\* min(years) and max(years). The strings find_omdb_movie stores that the
\* model uses are four digits each, which Python orders as their numbers.
MinYear(years) ==
    CHOOSE y \in {ToInt(years[i]) : i \in 1..Len(years)} :
        \A j \in 1..Len(years) : y <= ToInt(years[j])

MaxYear(years) ==
    CHOOSE y \in {ToInt(years[i]) : i \in 1..Len(years)} :
        \A j \in 1..Len(years) : y >= ToInt(years[j])

\* the loop of find_random_movie from its i-th test on; draws[1 + i] is what
\* random.choice gives the i-th test. Comparing an int year with a str year
\* raises TypeError.
RECURSIVE favor_loop(_, _, _, _, _, _)
favor_loop(catalog, fav, tests, draws, i, cur) ==
    IF i > tests \/ cur.raised THEN cur
    ELSE LET test == catalog[draws[1 + i]]
             better ==
                 IF fav = "older"
                 THEN MinYear(test.years) < MinYear(cur.movie.years)
                 ELSE MaxYear(test.years) > MaxYear(cur.movie.years)
         IN  IF test.ytype # cur.movie.ytype
             THEN [raised |-> TRUE, movie |-> NoMovie]
             ELSE favor_loop(catalog, fav, tests, draws, i + 1,
                             IF better THEN [raised |-> FALSE, movie |-> test]
                             ELSE cur)

\* find_random_movie(movies, favor, favor_tests), random.choice giving draws.
\* random.choice of an empty list raises IndexError.
find_random_movie(catalog, fav, tests, draws) ==
    IF catalog = <<>> THEN [raised |-> TRUE, movie |-> NoMovie]
    ELSE IF fav = "none" THEN [raised |-> FALSE, movie |-> catalog[draws[1]]]
    ELSE favor_loop(catalog, fav, tests, draws, 1,
                    [raised |-> FALSE, movie |-> catalog[draws[1]]])

\* how many times find_random_movie calls random.choice
NumDraws(fav, tests) == IF fav = "none" THEN 1 ELSE 1 + tests

----------------------------------------------------------------------------
(* Scoring.                                                                 *)

\* float('inf'), which no difference of two years reaches
Inf == -1

\* min(closest, difference)
min_closest(closest, difference) ==
    IF closest = Inf THEN difference
    ELSE IF closest < difference THEN closest ELSE difference

\* the inner loop of score_player_answers
RECURSIVE closest_loop(_, _, _)
closest_loop(movie_years, player_year, closest) ==
    IF movie_years = <<>> THEN closest
    ELSE closest_loop(Tail(movie_years), player_year,
             min_closest(closest, Abs(ToInt(Head(movie_years)) - player_year)))

\* answer_score with the points of a miss floored at zero
answer_score_floored(answer, movie_years) ==
    LET closest == closest_loop(movie_years, ToInt(answer), Inf)
    IN  IF closest = 0 THEN 50
        ELSE IF 20 - closest < 0 THEN 0 ELSE 20 - closest

\* the points score_player_answers gives one answer
answer_score(answer, movie_years) ==
    LET closest == closest_loop(movie_years, ToInt(answer), Inf)
    IN  IF closest = 0 THEN 50 ELSE 20 - closest

\* Player.score of every player after score_player_answers(active, years)
score_player_answers(active, movie_years, scores, answers) ==
    [p \in DOMAIN scores |->
        IF \E i \in 1..Len(active) : active[i] = p
        THEN scores[p] + answer_score(answers[p], movie_years)
        ELSE scores[p]]

\* insert_sorted placing a line before the lines of the same score
insert_sorted_ties_first(placed, line) ==
    LET k == Cardinality({i \in 1..Len(placed) :
                             placed[i].score > line.score})
    IN  SubSeq(placed, 1, k) \o <<line>> \o SubSeq(placed, k + 1, Len(placed))

\* sorted(..., reverse = True), one element placed: line goes after the
\* lines already placed whose score is not lower (the sort is stable)
insert_sorted(placed, line) ==
    LET k == Cardinality({i \in 1..Len(placed) :
                             placed[i].score >= line.score})
    IN  SubSeq(placed, 1, k) \o <<line>> \o SubSeq(placed, k + 1, Len(placed))

RECURSIVE sorted_loop(_, _, _)
sorted_loop(rest, scores, placed) ==
    IF rest = <<>> THEN placed
    ELSE sorted_loop(Tail(rest), scores,
             insert_sorted(placed, [name |-> Head(rest),
                                    score |-> scores[Head(rest)]]))

\* the lines print_player_scores prints under 'Final scores:', in order
print_player_scores(order, scores) == sorted_loop(order, scores, <<>>)

----------------------------------------------------------------------------
(* What the environment may give: the command line, the movies file, the    *)
(* lines typed at the prompts and the answers of OMDB.                      *)

PlayerNames == <<"A", "B", "C", "D", "E">>

Catalogs == {<<>>, <<Up2009>>, <<Up2009, Dune8421>>}

TitleInputs == {<<>>, <<" ">>, T_up, T_Dune, T_dune, T_du}

A_2010 == <<"2", "0", "1", "0", " ">>
A_19xx == <<"1", "9", "x", "x">>

AnswerInputs == {<<>>, Y_198, A_19xx, Y_1984, A_2010}

IntText(n) == IF n < 0 THEN <<"-", Digits[1 - n]>> ELSE <<Digits[1 + n]>>

AgainInputs ==
    {<<>>, <<"y", "e", "s">>, <<"Y">>, <<"n", "o">>, <<"N", " ">>, <<"x">>}
        \cup {IntText(n) : n \in (0 - 1)..MaxRounds}

OmdbRecords ==
    {[Title |-> T_Dune, Year |-> Y_1984, Type |-> "movie"],
     [Title |-> T_Dune, Year |-> Y_2021, Type |-> "movie"],
     [Title |-> T_dune, Year |-> Y_1984_86, Type |-> "movie"],
     [Title |-> T_Dune, Year |-> Y_2000, Type |-> "game"],
     [Title |-> T_Dune, Year |-> Y_198, Type |-> "movie"],
     [Title |-> T_Dune, Type |-> "movie"],
     [Title |-> T_Up, Year |-> Y_2009, Type |-> "movie"]}

OmdbResponses ==
    {[kind |-> "raise"], [kind |-> "error"]}
        \cup {[kind |-> "search", Search |-> l] :
                 l \in UNION {[1..k -> OmdbRecords] : k \in 0..MaxResults}}

----------------------------------------------------------------------------
(* The program.                                                             *)

\* no line has been read yet
NotTyped == <<"(nothing)">>

Init ==
    /\ pc = "main"
    /\ challenge \in BOOLEAN
    /\ omdb_search \in (IF challenge THEN BOOLEAN ELSE {FALSE})
    /\ favor \in (IF challenge THEN {"none"} ELSE {"none", "older", "newer"})
    /\ favor_tests \in (IF favor = "none" THEN {MaxFavorTests}
                        ELSE 0..MaxFavorTests)
    /\ roundlimit \in 0..MaxRounds
    /\ round = 1
    /\ \E n \in 1..MaxPlayers : players = SubSeq(PlayerNames, 1, n)
    /\ score = [p \in {players[i] : i \in 1..Len(players)} |-> 0]
    /\ last_answer = [p \in {players[i] : i \in 1..Len(players)} |-> <<"0">>]
    /\ movies \in Catalogs
    /\ new_movies = <<>>
    /\ movie = NoMovie
    /\ idx = 0
    /\ found = NoFind
    /\ typed = NotTyped
    /\ file_appended = <<>>
    /\ final_scores = <<>>
    /\ rounds_scored = 0
    /\ rotations = 0

\* where play() blocks or draws next, at the top of its loop
LoopTop == IF challenge THEN "pick_movie" ELSE "select"

\* main() up to game.play(): the options are validated
Main ==
    /\ pc = "main"
    /\ pc' = IF roundlimit < 1 \/ favor_tests < 1 THEN "exit1" ELSE LoopTop
    /\ UNCHANGED <<challenge, omdb_search, favor, favor_tests, roundlimit,
                   round, players, score, last_answer, movies, new_movies,
                   movie, idx, found, typed, file_appended,
                   final_scores, rounds_scored, rotations>>

\* round_is_last missing the round that equals the limit
round_is_last_late(r, limit) == r > limit

\* round_is_last taking the round before the limit for the last
round_is_last_early(r, limit) == r + 1 >= limit

\* the test of play() for the last round of the match
round_is_last(r, limit) == r = limit

\* play(), from the scoring of the round's answers to the end of the loop
\* body. movie and found are not read again before they are assigned.
ScoreAndAdvance(active, the_movie, answers) ==
    /\ score' = score_player_answers(active, the_movie.years, score, answers)
    /\ rounds_scored' = rounds_scored + 1
    /\ IF round_is_last(round, roundlimit)
       THEN /\ final_scores' = print_player_scores(players, score')
            /\ pc' = "again"
            /\ UNCHANGED <<round, players, rotations>>
       ELSE /\ pc' = LoopTop
            /\ round' = round + 1
            /\ players' = rotate_left(players)
            /\ rotations' = rotations + 1
            /\ UNCHANGED final_scores
    /\ movie' = NoMovie
    /\ found' = NoFind
    /\ idx' = 0

\* play(), normal mode: find_random_movie, then the first answer prompt
SelectMovie(draws) ==
    /\ pc = "select"
    /\ \E r \in {find_random_movie(movies, favor, favor_tests, draws)} :
           IF r.raised
           THEN pc' = "crashed" /\ UNCHANGED <<movie, idx>>
           ELSE pc' = "answer" /\ movie' = r.movie /\ idx' = 1
    /\ UNCHANGED <<challenge, omdb_search, favor, favor_tests, roundlimit,
                   round, players, score, last_answer, movies, new_movies,
                   found, typed, file_appended,
                   final_scores, rounds_scored, rotations>>

\* add_found appending every match, local ones too
add_found_always(list, f) ==
    IF ~f.raised /\ f.match # NoMovie THEN Append(list, f.match) ELSE list

\* add_found with the test of from_omdb the wrong way round
add_found_inverted(list, f) ==
    IF ~f.raised /\ f.match # NoMovie /\ ~f.omdb
    THEN Append(list, f.match) ELSE list

\* pick_player_movie, a match found: self.movies and self.new_movies each
\* after 'if not from_omdb: ... else: ....append(match)'
add_found(list, f) ==
    IF ~f.raised /\ f.match # NoMovie /\ f.omdb
    THEN Append(list, f.match) ELSE list

\* pick_player_movie: one line typed at the 'Next movie?' prompt, OMDB
\* answering response if it is asked
PickMovie(name, response) ==
    /\ pc = "pick_movie"
    /\ IF Strip(name) = <<>>
       THEN UNCHANGED <<pc, round, players, score, movies, new_movies, movie,
                        idx, found, typed, final_scores, rounds_scored,
                        rotations>>
       ELSE \E f \in {find_movie(movies, name, omdb_search, response)} :
            LET active == Tail(players)
            IN  /\ movies' = add_found(movies, f)
                /\ new_movies' = add_found(new_movies, f)
                /\ IF f.raised
                   THEN /\ pc' = "crashed"
                        /\ found' = f
                        /\ typed' = name
                        /\ UNCHANGED <<round, players, score, movie, idx,
                                       final_scores, rounds_scored, rotations>>
                   ELSE IF f.match = NoMovie
                   THEN UNCHANGED <<pc, round, players, score, movie, idx,
                                    found, typed, final_scores, rounds_scored,
                                    rotations>>
                   ELSE IF active = <<>>
                   THEN /\ typed' = name
                        /\ ScoreAndAdvance(active, f.match, last_answer)
                   ELSE /\ pc' = "answer"
                        /\ movie' = f.match
                        /\ idx' = 1
                        /\ found' = f
                        /\ typed' = name
                        /\ UNCHANGED <<round, players, score, final_scores,
                                       rounds_scored, rotations>>
    /\ UNCHANGED <<challenge, omdb_search, favor, favor_tests, roundlimit,
                   last_answer, file_appended>>

\* play() giving every player to get_player_answers, the asker too
ActivePlayers_all == players

\* the players get_player_answers and score_player_answers are given
ActivePlayers == IF challenge THEN Tail(players) ELSE players

\* get_player_answers: one line typed at the prompt of player idx; after the
\* last player's answer the round is scored
Answer(answer) ==
    /\ pc = "answer"
    /\ LET player == ActivePlayers[idx]
           answers == [last_answer EXCEPT ![player] = answer]
       IN  IF Strip(answer) = <<>> \/ ~is_valid_year(answer)
           THEN UNCHANGED <<pc, round, players, score, last_answer, movie,
                            idx, found, typed, final_scores, rounds_scored,
                            rotations>>
           ELSE /\ last_answer' = answers
                /\ typed' = answer
                /\ IF idx < Len(ActivePlayers)
                   THEN /\ idx' = idx + 1
                        /\ found' = NoFind
                        /\ UNCHANGED <<pc, round, players, score, movie,
                                       final_scores, rounds_scored, rotations>>
                   ELSE ScoreAndAdvance(ActivePlayers, movie, answers)
    /\ UNCHANGED <<challenge, omdb_search, favor, favor_tests, roundlimit,
                   movies, new_movies, file_appended>>

\* Player.reset that resets nothing
reset_players_kept(f, value) == f

\* Player.reset of every player
reset_players(f, value) == [p \in DOMAIN f |-> value]

\* ask_to_play_again without its test for a negative number
ask_to_play_again_unchecked(line) ==
    LET answer == Lower(Strip(line))
    IN  IF answer \in {<<"y", "e", "s">>, <<"y">>, <<>>}
        THEN [again |-> FALSE, rounds |-> roundlimit]
        ELSE IF answer \in {<<"n", "o">>, <<"n">>}
        THEN [again |-> FALSE, rounds |-> 0]
        ELSE IF ~ParsesAsInt(answer) THEN [again |-> TRUE, rounds |-> 0]
        ELSE [again |-> FALSE, rounds |-> ToInt(answer)]

\* ask_to_play_again returning self.roundlimit for a number typed
ask_to_play_again_self(line) ==
    LET answer == Lower(Strip(line))
    IN  IF answer \in {<<"y", "e", "s">>, <<"y">>, <<>>}
        THEN [again |-> FALSE, rounds |-> roundlimit]
        ELSE IF answer \in {<<"n", "o">>, <<"n">>}
        THEN [again |-> FALSE, rounds |-> 0]
        ELSE IF ~ParsesAsInt(answer) THEN [again |-> TRUE, rounds |-> 0]
        ELSE IF ToInt(answer) < 0 THEN [again |-> TRUE, rounds |-> 0]
        ELSE [again |-> FALSE, rounds |-> roundlimit]

\* what ask_to_play_again returns for one line typed: "again" for no
\* return (it prompts again), else the number of rounds
ask_to_play_again(line) ==
    LET answer == Lower(Strip(line))
    IN  IF answer \in {<<"y", "e", "s">>, <<"y">>, <<>>}
        THEN [again |-> FALSE, rounds |-> roundlimit]
        ELSE IF answer \in {<<"n", "o">>, <<"n">>}
        THEN [again |-> FALSE, rounds |-> 0]
        ELSE IF ~ParsesAsInt(answer) THEN [again |-> TRUE, rounds |-> 0]
        ELSE IF ToInt(answer) < 0 THEN [again |-> TRUE, rounds |-> 0]
        ELSE [again |-> FALSE, rounds |-> ToInt(answer)]

\* play(), the round limit reached: one line typed at 'Play again?'
PlayAgain(line) ==
    /\ pc = "again"
    /\ \E a \in {ask_to_play_again(line)} :
           IF a.again
           THEN UNCHANGED <<pc, roundlimit, round, score, last_answer, typed,
                            final_scores, rounds_scored, rotations>>
           ELSE IF a.rounds = 0
           THEN /\ pc' = "done"
                /\ typed' = line
                /\ UNCHANGED <<roundlimit, round, score, last_answer,
                               final_scores, rounds_scored, rotations>>
           ELSE /\ pc' = LoopTop
                /\ typed' = line
                /\ final_scores' = <<>>
                /\ rounds_scored' = 0
                /\ rotations' = 0
                /\ score' = reset_players(score, 0)
                /\ last_answer' = reset_players(last_answer, <<"0">>)
                /\ round' = 1
                /\ roundlimit' = a.rounds
    /\ UNCHANGED <<challenge, omdb_search, favor, favor_tests, players,
                   movies, new_movies, movie, idx, found, file_appended>>

\* Interrupt saving the new movies on its way out
Interrupt_saving ==
    /\ pc \in {"pick_movie", "answer", "again"}
    /\ pc' = "interrupted"
    /\ file_appended' = file_appended \o new_movies
    /\ UNCHANGED <<challenge, omdb_search, favor, favor_tests, roundlimit,
                   round, players, score, last_answer, movies, new_movies,
                   movie, idx, found, typed,
                   final_scores, rounds_scored, rotations>>

\* KeyboardInterrupt at a prompt: main() is left, nothing is saved
Interrupt ==
    /\ pc \in {"pick_movie", "answer", "again"}
    /\ pc' = "interrupted"
    /\ UNCHANGED <<challenge, omdb_search, favor, favor_tests, roundlimit,
                   round, players, score, last_answer, movies, new_movies,
                   movie, idx, found, typed, file_appended,
                   final_scores, rounds_scored, rotations>>

\* main() after game.play() returned: the new movies are saved, unless
\* --no-auto-update was given or there is none; writing the file may fail,
\* with the movies before the failure written
SaveNewMovies(no_auto_update, write_ok) ==
    /\ pc = "done"
    /\ IF ~no_auto_update /\ Len(new_movies) > 0
       THEN IF write_ok
            THEN pc' = "exit0" /\ file_appended' = file_appended \o new_movies
            ELSE /\ pc' = "exit1"
                 /\ \E k \in 0..(Len(new_movies) - 1) :
                        file_appended' =
                            file_appended \o SubSeq(new_movies, 1, k)
       ELSE pc' = "exit0" /\ UNCHANGED file_appended
    /\ UNCHANGED <<challenge, omdb_search, favor, favor_tests, roundlimit,
                   round, players, score, last_answer, movies, new_movies,
                   movie, idx, found, typed,
                   final_scores, rounds_scored, rotations>>

\* what OMDB may answer when name is typed: nothing, unless it is asked
AsksOmdb(name) ==
    /\ Strip(name) # <<>>
    /\ omdb_search
    /\ find_local_movie(movies, name).match = NoMovie

OmdbAnswers(name) ==
    IF AsksOmdb(name) THEN OmdbResponses ELSE {[kind |-> "unasked"]}

\* what random.choice may give find_random_movie: places of the catalog,
\* and none when the catalog is empty (random.choice then raises)
RandomDraws ==
    IF movies = <<>> THEN {<<>>}
    ELSE [1..NumDraws(favor, favor_tests) -> 1..Len(movies)]

Next ==
    \/ Main
    \/ \E draws \in RandomDraws : SelectMovie(draws)
    \/ \E name \in TitleInputs :
           \E response \in OmdbAnswers(name) : PickMovie(name, response)
    \/ \E answer \in AnswerInputs : Answer(answer)
    \/ \E line \in AgainInputs : PlayAgain(line)
    \/ Interrupt
    \/ \E no_auto_update \in BOOLEAN, write_ok \in BOOLEAN :
           SaveNewMovies(no_auto_update, write_ok)

Spec == Init /\ [][Next]_vars

----------------------------------------------------------------------------
(* Vocabulary of the properties.                                            *)

\* the process blocks on a prompt or draws a movie: a match is being played
Playing == pc \in {"select", "pick_movie", "answer", "again"}

\* play() has returned
PlayReturned == pc = "done"

\* this step scores a round: the last active player's answer is accepted or,
\* with nobody to ask (challenge mode, one player), a title is matched
ScoredStep ==
    \/ pc = "answer" /\ pc' \notin {"answer", "interrupted"}
    \/ /\ pc = "pick_movie" /\ Len(players) = 1
       /\ pc' \notin {"interrupted", "crashed"}

\* s with its first element moved to the end
RotatedLeft(s) == [i \in 1..Len(s) |-> s[(i % Len(s)) + 1]]

NoDuplicates(s) == \A i, j \in 1..Len(s) : s[i] = s[j] => i = j

YearsOf(m) == {ToInt(m.years[i]) : i \in 1..Len(m.years)}

\* the points of section 4.3 for answer year a and correct years Y
ScoreDelta(a, Y) ==
    IF a \in Y THEN 50
    ELSE 20 - (CHOOSE d \in {Abs(a - y) : y \in Y} :
                  \A y \in Y : d <= Abs(a - y))

Y_1999 == <<"1", "9", "9", "9">>
Y_2001 == <<"2", "0", "0", "1">>
Y_1899 == <<"1", "8", "9", "9">>
Y_1977 == <<"1", "9", "7", "7">>

\* the catalog holds a movie of that name, letter case aside
HasLocalExact(name) ==
    \E i \in 1..Len(movies) : Lower(movies[i].name) = Lower(name)

\* this step ends the 'Next movie?' prompt with the line typed' accepted
TitleAccepted == pc = "pick_movie" /\ pc' \notin {"interrupted", "crashed"}

Count(m, list) == Cardinality({i \in 1..Len(list) : list[i] = m})

AllScoresZero(f) == \A p \in DOMAIN f : f[p] = 0

\* rotate_left applied n times
RECURSIVE Rotations(_, _)
Rotations(s, n) == IF n = 0 THEN s ELSE Rotations(rotate_left(s), n - 1)

\* the players of section 4.1 that answer: all of them, or all but the asker
AnsweringPlayers ==
    IF challenge THEN SubSeq(players, 2, Len(players)) ELSE players

\* this step accepts the line typed at an answer prompt
AnswerAccepted ==
    pc = "answer" /\ (pc' \notin {"answer", "interrupted"} \/ idx' # idx)

\* the place of player p in the turn order
Position(order, p) == CHOOSE i \in 1..Len(order) : order[i] = p

\* the line is no year of four digits
NotFourDigits(line) ==
    \/ Len(Strip(line)) # 4
    \/ \E i \in 1..Len(Strip(line)) : ~IsDigit(Strip(line)[i])

\* the line is neither yes, no nor a number that is not negative
BadContinuation(line) ==
    /\ Lower(Strip(line)) \notin {<<"y", "e", "s">>, <<"y">>, <<>>,
                                  <<"n", "o">>, <<"n">>}
    /\ \/ \E i \in 1..Len(Strip(line)) : ~IsDigit(Strip(line)[i])
       \/ ToInt(line) < 0

\* a record of OMDB's answer that find_omdb_movie does not skip
Survives(rec) ==
    /\ "Title" \in DOMAIN rec /\ "Year" \in DOMAIN rec /\ "Type" \in DOMAIN rec
    /\ rec.Type = "movie"
    /\ is_valid_year(Prefix(rec.Year, 4))

\* OMDB's answers with a list, with records without a title or a type among
\* the records
SearchAnswers ==
    {[kind |-> "search", Search |-> l] :
        l \in UNION {[1..k -> OmdbRecords
                                \cup {[Year |-> Y_1984, Type |-> "movie"],
                                      [Title |-> T_Dune, Year |-> Y_1984]}] :
                         k \in 0..MaxResults}}

\* the process has ended
Ended == pc \in {"exit0", "exit1", "crashed", "interrupted"}

\* no two movies of the catalog have the same name, letter case aside
UniqueNames(catalog) ==
    \A i, j \in 1..Len(catalog) :
        Lower(catalog[i].name) = Lower(catalog[j].name) => i = j

----------------------------------------------------------------------------
(* C1. When the title typed has no local exact match, OMDB is asked and the *)
(* lookup fails (omdb_search raises), find_movie returns no match, the      *)
(* local suggestions and omdb = False, and the game goes on: the player is  *)
(* asked for a title again, with round, scores, catalog and new movies      *)
(* unchanged.                                                               *)
C1_RemoteFailureIsNonFatal ==
    [][pc = "pick_movie" =>
        \A name \in TitleInputs :
            (AsksOmdb(name) /\ PickMovie(name, [kind |-> "raise"])) =>
                LET f == find_movie(movies, name, omdb_search,
                                    [kind |-> "raise"])
                IN  /\ ~f.raised
                    /\ f.match = NoMovie
                    /\ f.suggestions = find_local_movie(movies, name).suggestions
                    /\ ~f.omdb
                    /\ pc' = "pick_movie"
                    /\ UNCHANGED <<round, roundlimit, score, movies,
                                   new_movies>>]_vars

(* C2. Every movie the resolver adds to the catalog has a non-empty years   *)
(* list that holds each year at most once.                                  *)
C2_ResolvedYearsDuplicateFree ==
    \A i \in 1..Len(new_movies) :
        /\ new_movies[i].years # <<>>
        /\ NoDuplicates(new_movies[i].years)

C4_EndsOnlyOnNo ==
    PlayReturned => Lower(Strip(typed)) \in {<<"n", "o">>, <<"n">>}

(* C5. The players are rotated left exactly once in a step that scores a    *)
(* round other than the last of the match, together with the advance of     *)
(* round, and in no other step: not in the last round, and not when the     *)
(* match is started again, which begins with the order of the last round.   *)
C5_RotationOnlyAfterNonFinalRound ==
    [][IF ScoredStep /\ round # roundlimit
       THEN players' = RotatedLeft(players) /\ round' = round + 1
       ELSE players' = players]_vars

\* a match of two rounds started again in the order its predecessor ended
\* in: rotated once after its first round and not after its last
C5_Witness ==
    /\ pc = LoopTop /\ round = 1 /\ roundlimit = 2
    /\ players = <<"B", "A">>
    /\ Lower(Strip(typed)) = <<"y", "e", "s">>

(* C6. The points for an answer are 50 if it equals one of the correct      *)
(* years, else 20 minus the distance to the closest one, with no floor; in  *)
(* a scored round each active player's score grows by the points of that    *)
(* player's own answer.                                                     *)
C6_ScoreIsDistanceBased ==
    [][(pc = "answer" /\ ScoredStep) =>
          /\ answer_score(Y_1999, <<Y_1999>>) = 50
          /\ answer_score(Y_2001, <<Y_1999>>) = 18
          /\ answer_score(Y_1899, <<Y_1999>>) = 0 - 80
          /\ answer_score(Y_1999, <<Y_1977, Y_1999>>) = 50
          /\ \A Y \in {YearsOf(movie)} :
                 \A p \in {ActivePlayers[i] : i \in 1..Len(ActivePlayers)} :
                     score'[p] = score[p]
                                    + ScoreDelta(ToInt(last_answer'[p]), Y)
      ]_vars

\* a player whose wild guesses brought the score below zero
C6_Witness ==
    /\ pc = "again"
    /\ \E p \in DOMAIN score : score[p] < 0
    /\ \E p \in DOMAIN score : score[p] >= 50

C8_LocalMatchNeedsNoRemote ==
    [][(pc = "pick_movie" /\ pc' # "interrupted" /\ typed' # NotTyped
            /\ HasLocalExact(typed')) =>
          \A m \in {c \in {movies[i] : i \in 1..Len(movies)} :
                       Lower(c.name) = Lower(typed')} :
              /\ UNCHANGED <<movies, new_movies>>
              /\ pc' # "crashed"
              /\ pc' = "answer" =>
                     /\ ~found'.omdb /\ ~found'.called
                     /\ found'.match = m
                     /\ movie' = m
              /\ \A response \in OmdbResponses :
                     \A f \in {find_movie(movies, typed', TRUE, response)} :
                         f.match = m /\ ~f.omdb /\ ~f.called /\ ~f.raised
      ]_vars

\* "up" typed with the OMDB search enabled and Up in the catalog
C8_Witness ==
    /\ pc = "answer"
    /\ omdb_search
    /\ typed = T_up
    /\ found.match = Up2009 /\ ~found.omdb /\ ~found.called
    /\ new_movies = <<>>

(* C9. At the 'Play again?' prompt, "yes" or an empty line starts a new     *)
(* match with the round limit as it was, every score 0 and round = 1; the   *)
(* players are the same.                                                    *)
C9_YesRestartsWithSameLimit ==
    [][pc = "again" =>
        \A line \in {<<"y", "e", "s">>, <<>>} :
            PlayAgain(line) =>
                /\ pc' = LoopTop
                /\ roundlimit' = roundlimit
                /\ round' = 1
                /\ DOMAIN score' = DOMAIN score
                /\ AllScoresZero(score')
                /\ players' = players]_vars

\* a match of two rounds, played to its end and started again by an empty
\* line
C9_Witness ==
    /\ typed = <<>>
    /\ pc = LoopTop
    /\ round = 1 /\ roundlimit = 2
    /\ Len(players) = 2 /\ players[1] = "B"
    /\ AllScoresZero(score)

(* C10. While a match is being played, 1 <= round <= roundlimit.            *)
C10_RoundWithinLimit ==
    Playing => (1 <= round /\ round <= roundlimit)

\* the last round of a match whose limit was typed at the prompt, smaller
\* than the limit of the match before
C10_Witness ==
    /\ pc = "again"
    /\ round = 1 /\ roundlimit = 1
    /\ Len(players) = 2 /\ players[1] = "B"

(* C11. roundlimit >= 1 in every state of the game: main() rejects a limit  *)
(* below 1 before the game is made, and no line accepted at the 'Play       *)
(* again?' prompt brings it below 1.                                        *)
C11_RoundLimitPositive ==
    [][/\ (pc = "main" /\ roundlimit < 1) => pc' = "exit1"
       /\ pc' \in {"select", "pick_movie", "answer", "again", "done",
                   "exit0", "crashed", "interrupted"} => roundlimit' >= 1
      ]_vars

\* 0 typed at the prompt ended the match and left the limit as it was
C11_Witness ==
    /\ pc = "done"
    /\ typed = IntText(0)
    /\ roundlimit = MaxRounds

(* C12. rotate_left moves the first element to the end and keeps the order  *)
(* of the others ([A, B, C] becomes [B, C, A]; a list of length 0 or 1 is   *)
(* left as it is); the players are always a permutation of the players the  *)
(* game began with, and as many rotations as there are players give the     *)
(* order back.                                                              *)
C12_RotationPermutes ==
    /\ rotate_left(<<"A", "B", "C">>) = <<"B", "C", "A">>
    /\ rotate_left(<<>>) = <<>>
    /\ rotate_left(<<"A">>) = <<"A">>
    /\ rotate_left(players) = RotatedLeft(players)
    /\ NoDuplicates(players)
    /\ {players[i] : i \in 1..Len(players)}
           = {PlayerNames[i] : i \in 1..Len(players)}
    /\ Rotations(players, Len(players)) = players
    /\ Rotations(<<"A", "B", "C">>, 3) = <<"A", "B", "C">>

\* the second rotation of the session gave the first order back
C12_Witness ==
    /\ players = <<"A", "B">>
    /\ rotations = 1
    /\ round = 2

(* C13. A catalog whose names are unique, letter case aside, stays so        *)
(* through every step, and only grows at its end: the movies it held are    *)
(* still there, at their places, with their names and years.                *)
C13_CatalogUniqueAppendOnly ==
    [][UniqueNames(movies) =>
          /\ UniqueNames(movies')
          /\ Len(movies') >= Len(movies)
          /\ SubSeq(movies', 1, Len(movies)) = movies
      ]_vars

\* an empty catalog that two OMDB matches have filled, the first of them
\* then found in it
C13_Witness ==
    /\ Len(movies) = 2
    /\ new_movies = movies
    /\ pc = "answer"
    /\ ~found.omdb /\ found.match = movies[1]

(* C14. The players that answer in a round are all the players in normal    *)
(* mode and all but the asker, the first of the order, in challenge mode:   *)
(* they are asked one after the other in the turn order, each answer is     *)
(* kept for the player asked, the round is scored when the last of them     *)
(* has answered, and only their scores change; the asker's score is left    *)
(* as it was.                                                               *)
C14_ActivePlayersAnswerAndScore ==
    [][\A active \in {AnsweringPlayers} :
          /\ (pc # "answer" /\ pc' = "answer") =>
                 idx' = 1 /\ Len(active) >= 1 /\ players' = players
          /\ AnswerAccepted =>
                 /\ idx \in 1..Len(active)
                 /\ last_answer' = [last_answer EXCEPT ![active[idx]] = typed']
                 /\ IF idx < Len(active)
                    THEN pc' = "answer" /\ idx' = idx + 1 /\ score' = score
                    ELSE ScoredStep
          /\ ScoredStep =>
                 /\ pc = "answer" => idx = Len(active)
                 /\ \A p \in DOMAIN score :
                        IF \E i \in 1..Len(active) : active[i] = p
                        THEN score'[p] = score[p]
                                 + ScoreDelta(ToInt(last_answer'[p]),
                                              YearsOf(movie))
                        ELSE score'[p] = score[p]
                 /\ challenge => score'[players[1]] = score[players[1]]
          /\ ~ScoredStep => (pc = "again" \/ score' = score)
      ]_vars

\* challenge mode, two players, a match of one round: B answered and was
\* scored, A asked and was not
C14_Witness ==
    /\ challenge
    /\ pc = "again" /\ roundlimit = 1
    /\ players = <<"A", "B">>
    /\ score["A"] = 0 /\ score["B"] # 0
    /\ last_answer["A"] = <<"0">>

(* C15. The final scores are shown from the highest score to the lowest,    *)
(* players of the same score in their turn order, and showing them leaves   *)
(* the turn order as it is; scores A: 40, B: 55, C: 20 are shown B, A, C.   *)
C15_FinalScoresStableDescending ==
    [][pc' = "again" =>
          /\ print_player_scores(<<"A", "B", "C">>,
                 [p \in {"A", "B", "C"} |->
                     CASE p = "A" -> 40 [] p = "B" -> 55 [] p = "C" -> 20])
               = <<[name |-> "B", score |-> 55], [name |-> "A", score |-> 40],
                   [name |-> "C", score |-> 20]>>
          /\ pc # "again" => players' = players
          /\ Len(final_scores') = Len(players')
          /\ \A i \in 1..Len(players') :
                 \E j \in 1..Len(final_scores') :
                     final_scores'[j] = [name |-> players'[i],
                                         score |-> score'[players'[i]]]
          /\ \A i, j \in 1..Len(final_scores') :
                 i < j =>
                    \/ final_scores'[i].score > final_scores'[j].score
                    \/ /\ final_scores'[i].score = final_scores'[j].score
                       /\ Position(players', final_scores'[i].name)
                              < Position(players', final_scores'[j].name)
      ]_vars

\* two players of the same score, shown in the turn order of the last round
C15_Witness ==
    /\ pc = "again"
    /\ players = <<"B", "A">>
    /\ score["A"] = score["B"] /\ score["A"] > 0
    /\ final_scores[1].name = "B" /\ final_scores[2].name = "A"

(* C16. A movie that OMDB gave in this session stays in the catalog and in  *)
(* the new movies, and every later lookup of its title, in any letter case, *)
(* returns it with omdb = False, without asking OMDB, whatever OMDB would   *)
(* answer, and adds nothing to the catalog or to the new movies.            *)
C16_CachedTitleResolvesLocally ==
    [][\A m \in {new_movies[i] : i \in 1..Len(new_movies)} :
          /\ \E j \in 1..Len(movies') : movies'[j] = m
          /\ \E j \in 1..Len(new_movies') : new_movies'[j] = m
          /\ (pc = "pick_movie" /\ pc' # "interrupted"
                  /\ Lower(typed') = Lower(m.name)) =>
                 /\ UNCHANGED <<movies, new_movies>>
                 /\ pc' # "crashed"
                 /\ pc' = "answer" =>
                        /\ found'.match = m /\ movie' = m
                        /\ ~found'.omdb /\ ~found'.called
                 /\ \A name \in {n \in TitleInputs :
                                     Lower(n) = Lower(m.name)} :
                        /\ ~AsksOmdb(name)
                        /\ \A response \in OmdbResponses :
                               \A f \in {find_movie(movies, name, omdb_search,
                                                     response)} :
                                   /\ f.match = m
                                   /\ ~f.omdb /\ ~f.called /\ ~f.raised
                                   /\ add_found(movies, f) = movies
                                   /\ add_found(new_movies, f) = new_movies
      ]_vars

\* Dune, which OMDB gave earlier in the session, typed again as "dune"
C16_Witness ==
    /\ pc = "answer"
    /\ typed = T_dune
    /\ new_movies # <<>> /\ new_movies[1].name = T_Dune
    /\ found.match = new_movies[1]
    /\ ~found.omdb /\ ~found.called
    /\ rounds_scored = 1

(* C17. A line a prompt cannot take is asked for again and changes nothing: *)
(* a line that is no year of four digits at an answer prompt, an empty      *)
(* title or a title with no match at the 'Next movie?' prompt, a negative   *)
(* number or a line that is no answer at the 'Play again?' prompt each      *)
(* leave the game at the same prompt for the same player, with round,       *)
(* roundlimit, the scores, the turn order, the catalog and the new movies   *)
(* as they were; none of them ends the game.                                *)
C17_InvalidInputReprompts ==
    [][/\ pc = "answer" =>
              \A answer \in AnswerInputs :
                  (NotFourDigits(answer) /\ Answer(answer)) =>
                      UNCHANGED <<pc, idx, round, roundlimit, score, players,
                                  movies, new_movies>>
       /\ pc = "pick_movie" =>
              \A name \in TitleInputs :
                  \A response \in OmdbAnswers(name) :
                      (/\ \/ Strip(name) = <<>>
                          \/ find_movie(movies, name, omdb_search,
                                        response).match = NoMovie
                       /\ PickMovie(name, response)) =>
                          UNCHANGED <<pc, idx, round, roundlimit, score,
                                      players, movies, new_movies>>
       /\ pc = "again" =>
              \A line \in AgainInputs :
                  (BadContinuation(line) /\ PlayAgain(line)) =>
                      UNCHANGED <<pc, idx, round, roundlimit, score, players,
                                  movies, new_movies>>
      ]_vars

(* C18. Each record of OMDB's answer is taken or skipped by itself: a       *)
(* record without Title, Year or Type, one whose Type is not "movie" and    *)
(* one whose Year, cut to four characters, is no valid year are skipped and *)
(* the others still count. The suggestions are the titles of the records    *)
(* not skipped; the match is made of those among them whose title is the    *)
(* name asked for, letter case aside, and its years are theirs.             *)
C18_RecordsFilteredOneByOne ==
    (pc = "pick_movie" /\ omdb_search) =>
        \A name \in {n \in TitleInputs : AsksOmdb(n)} :
            \A response \in SearchAnswers :
                \A r \in {find_omdb_movie(name, response)} :
                \A alive \in {{i \in 1..Len(response.Search) :
                                  Survives(response.Search[i])}} :
                \A hits \in {{i \in alive :
                                 Lower(response.Search[i].Title)
                                     = Lower(name)}} :
                    /\ r.returned = "tuple"
                    /\ r.suggestions
                           = {response.Search[i].Title : i \in alive}
                    /\ IF hits = {}
                       THEN r.match = NoMovie
                       ELSE /\ \E i \in hits :
                                   /\ \A j \in hits : i <= j
                                   /\ r.match.name = response.Search[i].Title
                            /\ {r.match.years[k] :
                                    k \in 1..Len(r.match.years)}
                                   = {Prefix(response.Search[i].Year, 4) :
                                         i \in hits}

\* "Dune" typed with OMDB answering "dune" of "1984-86" and Up of 2009: both
\* records count, the first makes the match
C18_Witness ==
    /\ pc = "answer"
    /\ typed = T_Dune
    /\ found.omdb /\ found.outcome = "search"
    /\ found.match = [name |-> T_dune, years |-> <<Y_1984>>, ytype |-> "str"]
    /\ found.suggestions = {T_dune, T_Up}

(* C19. The new movies are written to the movies file at most once, and     *)
(* only after play() returned from the 'Play again?' prompt, with           *)
(* --no-auto-update not given and at least one new movie; when the game is  *)
(* interrupted at a prompt nothing is written, and the new movies of the    *)
(* session are lost.                                                        *)
C19_SavedOnceAfterNormalEnd ==
    [][/\ ~Ended
       /\ file_appended' # file_appended =>
              /\ pc = "done" /\ pc' \in {"exit0", "exit1"}
              /\ file_appended = <<>>
              /\ new_movies # <<>>
              /\ \E k \in 1..Len(new_movies) :
                     file_appended' = SubSeq(new_movies, 1, k)
              /\ \A ok \in BOOLEAN : ~SaveNewMovies(TRUE, ok)
       /\ pc' = "exit0" =>
              \/ file_appended' = new_movies
              \/ file_appended' = <<>> /\ SaveNewMovies(TRUE, TRUE)
       /\ pc' \in {"interrupted", "crashed"} => file_appended' = <<>>
       /\ pc # "done" => file_appended' = file_appended
      ]_vars

\* the movie OMDB gave in the session, written to the file at the end
C19_Witness ==
    /\ pc = "exit0"
    /\ new_movies # <<>>
    /\ file_appended = new_movies

(* C20. A match is exactly roundlimit scored rounds: the rounds scored are  *)
(* round 1, 2, ..., roundlimit in this order, the 'Play again?' prompt is   *)
(* reached by the scoring of round roundlimit and by nothing else, and the  *)
(* players are rotated roundlimit - 1 times in the match; a match started   *)
(* again counts from round 1 anew.                                          *)
C20_MatchIsRoundLimitRounds ==
    [][/\ ScoredStep =>
              /\ round = rounds_scored + 1
              /\ rounds_scored' = round
              /\ round <= roundlimit
              /\ IF round = roundlimit
                 THEN /\ pc' = "again"
                      /\ round' = round
                      /\ rotations' = rotations
                      /\ rotations = roundlimit - 1
                 ELSE /\ pc' = LoopTop
                      /\ round' = round + 1
                      /\ rotations' = rotations + 1
                      /\ rotations' = round
       /\ (pc # "again" /\ pc' = "again") =>
              ScoredStep /\ rounds_scored' = roundlimit
       /\ ~ScoredStep =>
              IF pc = "again" /\ pc' = LoopTop
              THEN round' = 1 /\ rounds_scored' = 0 /\ rotations' = 0
              ELSE UNCHANGED <<round, rounds_scored, rotations, roundlimit>>
      ]_vars

\* the second match of a session, of two rounds, at its end
C20_Witness ==
    /\ pc = "again"
    /\ roundlimit = 2 /\ rounds_scored = 2 /\ rotations = 1
    /\ players = <<"A", "B">>

(* C21. In normal mode find_random_movie draws 1 + favor_tests movies when  *)
(* a favor is set and returns one of them, the first draw unless a later    *)
(* one is strictly better: with favor = older no movie drawn has a lower    *)
(* minimum year than the one returned, with favor = newer none has a higher *)
(* maximum year. With no favor it draws once and returns that movie. The    *)
(* catalog is left as it is.                                                *)
C21_FavorPicksBestDrawn ==
    [][(pc = "select" /\ movies # <<>>) =>
          \A draws \in RandomDraws :
              SelectMovie(draws) =>
                  /\ pc' = "answer"
                  /\ movies' = movies
                  /\ Len(draws) = (IF favor = "none" THEN 1
                                   ELSE 1 + favor_tests)
                  /\ favor = "none" => movie' = movies[draws[1]]
                  /\ favor = "older" =>
                         \E k \in 1..Len(draws) :
                             /\ movie' = movies[draws[k]]
                             /\ \A i \in 1..Len(draws) :
                                    MinYear(movie'.years)
                                        <= MinYear(movies[draws[i]].years)
                             /\ \A i \in 1..(k - 1) :
                                    MinYear(movie'.years)
                                        < MinYear(movies[draws[i]].years)
                  /\ favor = "newer" =>
                         \E k \in 1..Len(draws) :
                             /\ movie' = movies[draws[k]]
                             /\ \A i \in 1..Len(draws) :
                                    MaxYear(movie'.years)
                                        >= MaxYear(movies[draws[i]].years)
                             /\ \A i \in 1..(k - 1) :
                                    MaxYear(movie'.years)
                                        > MaxYear(movies[draws[i]].years)
      ]_vars

====
